---- MODULE Spec2Model ----
(***************************************************************************)
(* Model of the multi-model serving gateway EnhancedVLLMDeployment         *)
(* (src/ray/vllm/enhanced.py): construction of the model registry, the     *)
(* runtime model switch, the chat-completion dispatch path with its three  *)
(* suspension-separated segments, and the model listing / health handlers. *)
(* Spec runs the handlers with switch_model as one step; SpecRace splits   *)
(* switch_model between its membership test and its assignment.            *)
(***************************************************************************)
EXTENDS Integers, Sequences, FiniteSets, TLC

\* ---------------------------------------------------------------- bounds
MaxModels == 2          \* longest configured supported_models list
MaxReqs   == 1          \* chat-completion calls in flight at once (slots are reused)
MaxErrors == 2          \* the error counter is followed up to this value

\* ------------------------------------------------------- input universes
ModelNames   == {"t5-small", "t5-large"}
BackendCodes == {400, 404}
ReqIds       == 1..MaxReqs
SwitchCalls  == {"first", "second"}     \* the two concurrent switch_model calls

\* All sequences over S of length 0..n
RECURSIVE SeqsUpTo(_, _)
SeqsUpTo(S, n) ==
    IF n = 0 THEN {<<>>}
    ELSE LET shorter == SeqsUpTo(S, n - 1)
         IN  shorter \cup {Append(s, x) : s \in {t \in shorter : Len(t) = n - 1}, x \in S}

VARIABLES
    phase,             \* "new" | "running" | "failed"
    supported_models,  \* constructor argument: list of model names
    default_model,     \* constructor argument
    load_ok,           \* per list entry: does from_engine_args succeed there
    current_model,     \* self.current_model ("" while the attribute is unset)
    models,            \* self.models: name -> engine handle
    ERROR_COUNT,       \* the process-wide Counter
    reqs,              \* in-flight create_chat_completion calls
    switching,         \* per switch_model call: the name it has checked and not yet stored
    last               \* the handler segment that ran last, with its outcome

vars == <<phase, supported_models, default_model, load_ok,
          current_model, models, ERROR_COUNT, reqs, switching, last>>

config == <<supported_models, default_model, load_ok>>

\* ------------------------------------------------------- module namespace
\* Names bound at module level by the imports and assignments of enhanced.py
ModuleGlobals ==
    {"time", "Dict", "Optional", "List", "logging", "FastAPI", "HTTPException",
     "Request", "JSONResponse", "serve", "ChatCompletionRequest",
     "ChatCompletionResponse", "ErrorResponse", "AsyncLLMEngine",
     "OpenAIServingChat", "Summary", "Counter", "REQUEST_TIME", "ERROR_COUNT",
     "logger", "app"}

\* Evaluating a global name succeeds only if the module binds it
NameResolves(name) == name \in ModuleGlobals

\* ------------------------------------------------------------- responses
NoResponse == [kind |-> "none", status_code |-> 0, media_type |-> "", content |-> [none |-> TRUE]]

\* starlette JSONResponse(content, status_code=200)
JSONResponse(content, status_code) ==
    [kind |-> "JSONResponse", status_code |-> status_code,
     media_type |-> "application/json", content |-> content]

\* starlette StreamingResponse(content, media_type): status 200, lazy body
StreamingResponse(content, media_type) ==
    [kind |-> "StreamingResponse", status_code |-> 200,
     media_type |-> media_type, content |-> content]

\* fastapi HTTPException(status_code, detail) as rendered by the framework
HTTPException(status_code, detail) ==
    [kind |-> "HTTPException", status_code |-> status_code,
     media_type |-> "application/json", content |-> [detail |-> detail]]

\* --------------------------------------------------- engine return values
\* What OpenAIServingChat.create_chat_completion may hand back
ErrorResponses == {[cls |-> "ErrorResponse", fields |-> [message |-> "Error", code |-> c]] : c \in BackendCodes}
ChatCompletionResponses == {[cls |-> "ChatCompletionResponse", fields |-> [message |-> "Success"]]}
\* The lazy output: the chunks it yields, and whether it then raises instead of ending
AsyncGenerators == {[cls |-> "AsyncGenerator", fields |-> [chunks |-> <<"a", "b">>, raises |-> x]] : x \in BOOLEAN}
Raised == [cls |-> "raise", fields |-> [none |-> TRUE]]
NoGenerator == [cls |-> "none", fields |-> [none |-> TRUE]]
GenOutcomes == ErrorResponses \cup ChatCompletionResponses \cup AsyncGenerators \cup {Raised}

\* pydantic BaseModel.model_dump(): the field dictionary of the object
model_dump(obj) == obj.fields

isinstance(obj, cls) == obj.cls = cls

\* -------------------------------------------------------------- requests
IdleReq == [pc |-> "idle", stream |-> FALSE, routed |-> "", engine |-> 0,
            served_model_names |-> <<>>, generate_on |-> {},
            observed |-> 0, ran |-> {}]

NoCall == [op |-> "none"]

Init ==
    /\ phase = "new"
    /\ supported_models \in SeqsUpTo(ModelNames, MaxModels)
    /\ default_model \in ModelNames
    /\ load_ok \in {s \in SeqsUpTo(BOOLEAN, MaxModels) : Len(s) = Len(supported_models)}
    /\ current_model = ""
    /\ models = [n \in {} |-> 0]
    /\ ERROR_COUNT = 0
    /\ reqs = [r \in ReqIds |-> IdleReq]
    /\ switching = [t \in SwitchCalls |-> ""]
    /\ last = NoCall

\* ---------------------------------------------------------- construction
\* Mutant: a failed load is logged but not counted
LoadModel_uncounted(ms, ec, name, ok, i) ==
    IF ok
    THEN [models |-> [n \in DOMAIN ms \cup {name} |-> IF n = name THEN i ELSE ms[n]],
          errors |-> ec]
    ELSE [models |-> ms, errors |-> ec]

\* One iteration of the for loop of _initialize_models: the i-th entry either
\* yields a fresh engine (identified by i) stored under its name, or the
\* failure is logged and counted.
LoadModel(ms, ec, name, ok, i) ==
    IF ok
    THEN [models |-> [n \in DOMAIN ms \cup {name} |-> IF n = name THEN i ELSE ms[n]],
          errors |-> ec]
    ELSE [models |-> ms, errors |-> ec + 1]

\* The whole for loop, entries i..Len(names)
RECURSIVE LoadModels(_, _, _, _, _)
LoadModels(names, oks, i, ms, ec) ==
    IF i > Len(names) THEN [models |-> ms, errors |-> ec]
    ELSE LET step == LoadModel(ms, ec, names[i], oks[i], i)
         IN  LoadModels(names, oks, i + 1, step.models, step.errors)

\* Mutant: construction is refused only when nothing at all was loaded
DefaultMissing_lenient(default, ms) == DOMAIN ms = {}

\* The closing check of _initialize_models: TRUE when ValueError is raised
DefaultMissing(default, ms) == default \notin DOMAIN ms

\* Mutant: the first configured name is selected instead of the default
InitialCurrent_first(supported, default) ==
    IF Len(supported) > 0 THEN supported[1] ELSE default

\* The value __init__ gives self.current_model
InitialCurrent(supported, default) == default

\* __init__ together with _initialize_models
construct ==
    /\ phase = "new"
    /\ LET loaded == LoadModels(supported_models, load_ok, 1, [n \in {} |-> 0], ERROR_COUNT)
           raised == DefaultMissing(default_model, loaded.models)
       IN  /\ current_model' = InitialCurrent(supported_models, default_model)
           /\ models' = loaded.models
           /\ ERROR_COUNT' = loaded.errors
           /\ phase' = IF raised THEN "failed" ELSE "running"
           /\ last' = [op |-> "__init__", raised |-> IF raised THEN "ValueError" ELSE ""]
    /\ UNCHANGED <<config, reqs, switching>>

\* --------------------------------------------------------------- selector
\* Mutant: no membership check
switch_model_unguarded(ms, current, model_name) ==
    [raised |-> FALSE, current_model |-> model_name]

\* Mutant: the assignment precedes the membership check
switch_model_assign_first(ms, current, model_name) ==
    [raised |-> model_name \notin DOMAIN ms, current_model |-> model_name]

\* Mutant: the name is validated but never stored
switch_model_no_store(ms, current, model_name) ==
    [raised |-> model_name \notin DOMAIN ms, current_model |-> current]

\* Mutant: the selector is cleared instead of receiving the new name
switch_model_cleared(ms, current, model_name) ==
    [raised |-> model_name \notin DOMAIN ms,
     current_model |-> IF model_name \in DOMAIN ms THEN "" ELSE current]

\* switch_model: the new value of self.current_model and whether it raised
switch_model(ms, current, model_name) ==
    IF model_name \notin DOMAIN ms
    THEN [raised |-> TRUE, current_model |-> current]
    ELSE [raised |-> FALSE, current_model |-> model_name]

\* The answer of a switch that went through
Switched(model_name) ==
    [kind |-> "dict", status_code |-> 200, media_type |-> "application/json",
     content |-> [message |-> <<"Switched to model", model_name>>]]

\* POST /v1/models/{model_name}/switch
switch_model_endpoint(model_name) ==
    /\ phase = "running"
    /\ LET r == switch_model(models, current_model, model_name)
       IN  /\ current_model' = r.current_model
           /\ last' = [op |-> "switch_model_endpoint", model_name |-> model_name,
                       response |-> IF r.raised
                                    THEN HTTPException(400, "Unsupported model")
                                    ELSE Switched(model_name)]
    /\ UNCHANGED <<phase, config, models, ERROR_COUNT, reqs, switching>>

\* switch_model run by a thread of its own, first half (lines 61-62): the
\* membership test; the call either raises or goes on to the assignment
switch_model_check(t, model_name) ==
    /\ phase = "running"
    /\ switching[t] = ""
    /\ IF switch_model(models, current_model, model_name).raised
       THEN /\ last' = [op |-> "switch_model_endpoint", model_name |-> model_name,
                        response |-> HTTPException(400, "Unsupported model")]
            /\ UNCHANGED switching
       ELSE /\ switching' = [switching EXCEPT ![t] = model_name]
            /\ last' = [op |-> "switch_model", segment |-> "checked",
                        model_name |-> model_name]
    /\ UNCHANGED <<phase, config, current_model, models, ERROR_COUNT, reqs>>

\* Second half (lines 63-64, 123): the assignment and the answer
switch_model_store(t) ==
    /\ phase = "running"
    /\ switching[t] # ""
    /\ current_model' = switch_model(models, current_model, switching[t]).current_model
    /\ switching' = [switching EXCEPT ![t] = ""]
    /\ last' = [op |-> "switch_model_endpoint", model_name |-> switching[t],
                response |-> Switched(switching[t])]
    /\ UNCHANGED <<phase, config, models, ERROR_COUNT, reqs>>

\* The dictionary list_models returns
ListModelsBody == [models |-> supported_models, current_model |-> current_model]

\* GET /v1/models
list_models ==
    /\ phase = "running"
    /\ last' = [op |-> "list_models",
                response |-> [kind |-> "dict", status_code |-> 200,
                              media_type |-> "application/json",
                              content |-> ListModelsBody]]
    /\ UNCHANGED <<phase, config, current_model, models, ERROR_COUNT, reqs, switching>>

\* ----------------------------------------------------------------- health
\* engine.get_model_config() is a coroutine function: called without await
\* it only builds the coroutine object, the body (and any failure in it)
\* never runs.  TRUE when the call expression itself raises.
UnawaitedCallRaises(probe_fails) == FALSE

\* The dictionary check_model_health returns
HealthStatus(model_name, status) ==
    [kind |-> "dict", status_code |-> 200, media_type |-> "application/json",
     content |-> [model |-> model_name, status |-> status]]

\* Mutant: no membership test; the registry lookup inside the try then fails
\* for an unknown name and is reported like a failed probe
HealthResult_unchecked(ms, model_name, probe_fails) ==
    IF model_name \notin DOMAIN ms \/ UnawaitedCallRaises(probe_fails)
    THEN [response |-> HealthStatus(model_name, "unhealthy"), errors |-> 1]
    ELSE [response |-> HealthStatus(model_name, "healthy"), errors |-> 0]

\* Lines 107-117: what check_model_health answers and how many errors it counts
HealthResult(ms, model_name, probe_fails) ==
    IF model_name \notin DOMAIN ms
    THEN [response |-> HTTPException(400, "Model not found"), errors |-> 0]
    ELSE IF UnawaitedCallRaises(probe_fails)
    THEN [response |-> HealthStatus(model_name, "unhealthy"), errors |-> 1]
    ELSE [response |-> HealthStatus(model_name, "healthy"), errors |-> 0]

\* Mutant: probing a loaded model also selects it
check_model_health_selects(model_name, probe_fails) ==
    /\ phase = "running"
    /\ LET res == HealthResult(models, model_name, probe_fails)
       IN  /\ ERROR_COUNT + res.errors <= MaxErrors
           /\ ERROR_COUNT' = ERROR_COUNT + res.errors
           /\ last' = [op |-> "check_model_health", model_name |-> model_name,
                       probe_fails |-> probe_fails, response |-> res.response]
    /\ current_model' = IF model_name \in DOMAIN models THEN model_name ELSE current_model
    /\ UNCHANGED <<phase, config, models, reqs, switching>>

\* GET /v1/models/{model_name}/health; probe_fails: the engine's
\* get_model_config would fail if it were run
check_model_health(model_name, probe_fails) ==
    /\ phase = "running"
    /\ LET res == HealthResult(models, model_name, probe_fails)
       IN  /\ ERROR_COUNT + res.errors <= MaxErrors
           /\ ERROR_COUNT' = ERROR_COUNT + res.errors
           /\ last' = [op |-> "check_model_health", model_name |-> model_name,
                       probe_fails |-> probe_fails, response |-> res.response]
    /\ UNCHANGED <<phase, config, current_model, models, reqs, switching>>

\* ------------------------------------------------------------- dispatcher
\* Mutant: the except clause answers 500 without counting the error
ExceptionHandler_uncounted == [response |-> HTTPException(500, "Internal server error"), errors |-> 0]

\* The except clause of create_chat_completion: count, answer 500
ExceptionHandler == [response |-> HTTPException(500, "Internal server error"), errors |-> 1]

\* Mutant: requests are always routed to the default model's engine
RoutedModel_default(current, default) == default

\* The name whose engine a request is routed to (line 71)
RoutedModel(current, default) == current

\* Mutant: the backend's status code is translated to a generic 500
ErrorResult_translated(generator) ==
    [response |-> JSONResponse(model_dump(generator), 500), errors |-> 1]

\* Mutant: the backend's error is passed through without being counted
ErrorResult_uncounted(generator) ==
    [response |-> JSONResponse(model_dump(generator), generator.fields.code),
     errors |-> 0]

\* Lines 81-85: a structured backend error is counted and passed through
ErrorResult(generator) ==
    [response |-> JSONResponse(model_dump(generator), generator.fields.code),
     errors |-> 1]

\* Lines 86-89: the streaming branch; the name StreamingResponse is evaluated
\* when the branch runs, and NameError is an Exception like any other
StreamResult(generator) ==
    IF NameResolves("StreamingResponse")
    THEN [response |-> StreamingResponse(generator, "text/event-stream"), errors |-> 0]
    ELSE ExceptionHandler

\* Mutant: the engine's document is nested under a key of the answer
CompleteResult_wrapped(generator) ==
    IF isinstance(generator, "ChatCompletionResponse")
    THEN [response |-> JSONResponse([response |-> model_dump(generator)], 200), errors |-> 0]
    ELSE ExceptionHandler

\* Lines 90-92: the single-document branch, guarded by the assert
CompleteResult(generator) ==
    IF isinstance(generator, "ChatCompletionResponse")
    THEN [response |-> JSONResponse(model_dump(generator), 200), errors |-> 0]
    ELSE ExceptionHandler

\* What the caller receives of the engine's lazy output once the transport
\* sends the answer: a StreamingResponse is iterated chunk by chunk and a raise
\* of the iterator surfaces as a failure; any other answer carries no chunk
Delivered(response) ==
    IF response.kind = "StreamingResponse"
    THEN [chunks |-> response.content.fields.chunks, failed |-> response.content.fields.raises]
    ELSE [chunks |-> <<>>, failed |-> FALSE]

\* Lines 81-97: classify what the engine returned
Classify(generator, stream) ==
    IF isinstance(generator, "raise") THEN ExceptionHandler
    ELSE IF isinstance(generator, "ErrorResponse") THEN ErrorResult(generator)
    ELSE IF stream THEN StreamResult(generator)
    ELSE CompleteResult(generator)

\* @REQUEST_TIME.time() on an async def (lines 66-68).  Timer.__call__ wraps
\* the function in a plain function, "with timer: return func(*args)"; calling
\* a coroutine function only builds the coroutine object, so the with block is
\* left, and the duration observed, before any segment of the body has run.
\* TimerObservesAtCall: the observations made when the handler is called;
\* TimerCovers: the segments of the body, out of those that ran, that lie
\* inside the observed interval.
TimerObservesAtCall == 1
TimerCovers(ran) == {}

\* The call leaves create_chat_completion with result res, after the
\* segments in ran have run
Return(r, generator, res, ran) ==
    /\ ERROR_COUNT + res.errors <= MaxErrors
    /\ reqs' = [reqs EXCEPT ![r] = IdleReq]
    /\ ERROR_COUNT' = ERROR_COUNT + res.errors
    /\ last' = [op |-> "create_chat_completion", segment |-> "return",
                stream |-> reqs[r].stream, generator |-> generator,
                response |-> res.response, errors |-> res.errors,
                observed |-> reqs[r].observed, ran |-> ran,
                timed |-> TimerCovers(ran)]

\* Lines 70-72: look the engine up, start awaiting get_model_config()
create_chat_completion_lookup(r, stream) ==
    /\ phase = "running"
    /\ reqs[r].pc = "idle"
    /\ LET name == RoutedModel(current_model, default_model)
       IN  IF name \in DOMAIN models
           THEN /\ reqs' = [reqs EXCEPT ![r] = [IdleReq EXCEPT !.pc = "get_model_config",
                                                  !.stream = stream,
                                                  !.routed = current_model,
                                                  !.engine = models[name],
                                                  !.observed = TimerObservesAtCall,
                                                  !.ran = {"lookup"}]]
                /\ last' = [op |-> "create_chat_completion", segment |-> "lookup"]
                /\ UNCHANGED ERROR_COUNT
           ELSE /\ ERROR_COUNT + ExceptionHandler.errors <= MaxErrors
                /\ reqs' = reqs                      \* KeyError
                /\ ERROR_COUNT' = ERROR_COUNT + ExceptionHandler.errors
                /\ last' = [op |-> "create_chat_completion", segment |-> "return",
                            stream |-> stream, generator |-> NoGenerator,
                            response |-> ExceptionHandler.response,
                            errors |-> ExceptionHandler.errors,
                            observed |-> TimerObservesAtCall, ran |-> {"lookup"},
                            timed |-> TimerCovers({"lookup"})]
    /\ UNCHANGED <<phase, config, current_model, models, switching>>

\* Lines 72-80: get_model_config() resumes, the serving object is built with
\* the name that is current now, and generation is started on the engine
create_chat_completion_serve(r, config_ok, serving_ok) ==
    /\ phase = "running"
    /\ reqs[r].pc = "get_model_config"
    /\ IF config_ok /\ serving_ok
       THEN /\ reqs' = [reqs EXCEPT ![r].pc = "generate",
                                    ![r].served_model_names = <<current_model>>,
                                    ![r].generate_on = {reqs[r].engine},
                                    ![r].ran = @ \cup {"get_model_config", "serve"}]
            /\ last' = [op |-> "create_chat_completion", segment |-> "serve"]
            /\ UNCHANGED ERROR_COUNT
       ELSE Return(r, NoGenerator, ExceptionHandler,
                   reqs[r].ran \cup {"get_model_config"})
    /\ UNCHANGED <<phase, config, current_model, models, switching>>

\* Lines 80-97: generation resumes with the engine's return value (or raises)
create_chat_completion_respond(r, generator) ==
    /\ phase = "running"
    /\ reqs[r].pc = "generate"
    /\ Return(r, generator, Classify(generator, reqs[r].stream),
              reqs[r].ran \cup {"generate", "respond"})
    /\ UNCHANGED <<phase, config, current_model, models, switching>>

Next ==
    \/ construct
    \/ \E n \in ModelNames : switch_model_endpoint(n)
    \/ list_models
    \/ \E n \in ModelNames, f \in BOOLEAN : check_model_health(n, f)
    \/ \E r \in ReqIds, s \in BOOLEAN : create_chat_completion_lookup(r, s)
    \/ \E r \in ReqIds, c \in BOOLEAN, o \in BOOLEAN : create_chat_completion_serve(r, c, o)
    \/ \E r \in ReqIds, g \in GenOutcomes : create_chat_completion_respond(r, g)

Spec == Init /\ [][Next]_vars

\* The gateway with switch_model calls running in threads of their own, so
\* that two calls, and the readers of current_model, interleave between the
\* membership test and the assignment;
\* the readers are list_models and one dispatching request
RaceReaders == {1}

NextRace ==
    \/ construct
    \/ \E t \in SwitchCalls, n \in ModelNames : switch_model_check(t, n)
    \/ \E t \in SwitchCalls : switch_model_store(t)
    \/ list_models
    \/ \E r \in RaceReaders, s \in BOOLEAN : create_chat_completion_lookup(r, s)
    \/ \E r \in RaceReaders, c \in BOOLEAN, o \in BOOLEAN : create_chat_completion_serve(r, c, o)
    \/ \E r \in RaceReaders, g \in GenOutcomes : create_chat_completion_respond(r, g)

SpecRace == Init /\ [][NextRace]_vars

\* ================================================================ claims
\* Facts about the configuration, stated from the inputs alone
LoadedNames == {supported_models[i] : i \in {j \in 1..Len(supported_models) : load_ok[j]}}
FailedLoads == Cardinality({j \in 1..Len(supported_models) : ~load_ok[j]})
DefaultLoads == default_model \in LoadedNames
Returned == last.op = "create_chat_completion" /\ last.segment = "return"

\* C1: once construction has succeeded, whatever handlers have run and however
\* they interleaved, current_model is a key of the models registry.
C1_CurrentInRegistry == phase = "running" => current_model \in DOMAIN models

C1_Witness ==
    /\ phase = "running"
    /\ current_model # default_model
    /\ current_model \in DOMAIN models
    /\ \E r \in ReqIds : reqs[r].pc = "generate"
    /\ last.op = "check_model_health"

\* C2: a switch to a name that is not a key of the registry (a configured name
\* that failed to load included) is answered 400 "Unsupported model" and the
\* state after the call equals the state before it.
C2_SwitchUnknownRejected ==
    [][(last'.op = "switch_model_endpoint" /\ last'.model_name \notin DOMAIN models)
        => /\ last'.response = HTTPException(400, "Unsupported model")
           /\ UNCHANGED <<phase, config, current_model, models, ERROR_COUNT, reqs, switching>>]_vars

C2_Witness ==
    /\ last.op = "switch_model_endpoint"
    /\ last.model_name = "t5-large"
    /\ last.response.status_code = 400
    /\ \E i \in 1..Len(supported_models) : supported_models[i] = "t5-large" /\ ~load_ok[i]
    /\ current_model = "t5-small"

\* C3: a switch to a key of the registry succeeds, and the current model that
\* list_models reports right after it is the name switched to.
C3_SwitchThenCurrent ==
    /\ [](last.op = "switch_model_endpoint" /\ last.model_name \in DOMAIN models
            => /\ last.response.status_code = 200
               /\ ListModelsBody.current_model = last.model_name)
    /\ [][(/\ last.op = "switch_model_endpoint"
           /\ last.model_name \in DOMAIN models
           /\ last'.op = "list_models")
          => last'.response.content.current_model = last.model_name]_vars

C3_Witness ==
    /\ last.op = "switch_model_endpoint"
    /\ last.response.status_code = 200
    /\ last.model_name # default_model
    /\ current_model = last.model_name

\* C4: when no entry of the configured list loads the default model (it fails
\* to load, or it is not in the list), construction raises ValueError and no
\* gateway runs, whatever else was loaded.
C4_DefaultMustLoad ==
    (phase # "new" /\ ~DefaultLoads)
        => phase = "failed" /\ last = [op |-> "__init__", raised |-> "ValueError"]

C4_Witness ==
    /\ phase = "failed"
    /\ DOMAIN models # {}
    /\ \E i \in 1..Len(supported_models) : supported_models[i] = default_model

\* C5: when the default model loads, construction succeeds although other
\* entries fail; the registry holds exactly the names that loaded, and the
\* error counter has been incremented once per entry that failed to load.
C5_PartialLoad ==
    (phase # "new" /\ DefaultLoads)
        => /\ phase = "running"
           /\ DOMAIN models = LoadedNames
           /\ last.op = "__init__" => ERROR_COUNT = FailedLoads

C5_Witness ==
    /\ last.op = "__init__"
    /\ phase = "running"
    /\ FailedLoads >= 1
    /\ ERROR_COUNT = FailedLoads
    /\ \E i \in 1..Len(supported_models) : supported_models[i] \notin DOMAIN models

\* C6: right after a successful construction, before any switch, the current
\* model (as list_models reports it) is the configured default.
C6_StartsAtDefault ==
    (last.op = "__init__" /\ phase = "running")
        => current_model = default_model /\ ListModelsBody.current_model = default_model

C6_Witness ==
    /\ last.op = "__init__"
    /\ phase = "running"
    /\ Len(supported_models) >= 2
    /\ supported_models[1] # default_model
    /\ supported_models[1] \in DOMAIN models
    /\ current_model = default_model

\* C7: a request whose generation has been started had it started on the
\* engine handle of the model that was current when the request was routed,
\* and on no other handle, also when a switch ran in between.
C7_GenerateOnRoutedEngine ==
    \A r \in ReqIds :
        reqs[r].pc = "generate"
            => /\ reqs[r].routed \in DOMAIN models
               /\ reqs[r].generate_on = {models[reqs[r].routed]}

C7_Witness ==
    \E r \in ReqIds :
        /\ reqs[r].pc = "generate"
        /\ reqs[r].routed # current_model
        /\ reqs[r].routed # default_model
        /\ reqs[r].generate_on = {models[reqs[r].routed]}

\* C8: when generation returns an ErrorResponse, streaming asked for or not,
\* the error counter goes up by one and the answer is a JSON document with the
\* backend's message and code, sent with the backend's code as HTTP status.
C8_BackendErrorPassedThrough ==
    [][\A r \in ReqIds :
        (/\ reqs[r].pc = "generate"
         /\ reqs'[r].pc = "idle"
         /\ last'.generator \in ErrorResponses)
        => /\ ERROR_COUNT' = ERROR_COUNT + 1
           /\ last'.response.kind = "JSONResponse"
           /\ last'.response.status_code = last'.generator.fields.code
           /\ last'.response.content.code = last'.generator.fields.code
           /\ last'.response.content.message = last'.generator.fields.message]_vars

C8_Witness ==
    /\ Returned
    /\ last.stream
    /\ last.generator \in ErrorResponses
    /\ last.generator.fields.code = 400
    /\ last.response.status_code = 400
    /\ ERROR_COUNT >= 1

\* C9: a request with the streaming flag set, for which the engine hands back
\* its lazy output, is answered 200 with a text/event-stream StreamingResponse
\* around that output.
C9_StreamingYieldsStream ==
    (Returned /\ last.stream /\ last.generator \in AsyncGenerators)
        => /\ last.response.kind = "StreamingResponse"
           /\ last.response.status_code = 200
           /\ last.response.media_type = "text/event-stream"
           /\ last.response.content = last.generator

\* C10: a non-streaming request the engine completes with a
\* ChatCompletionResponse is answered by one 200 JSON response whose content
\* is exactly the fields of that document.
C10_CompleteRoundTrip ==
    (Returned /\ ~last.stream /\ last.generator \in ChatCompletionResponses)
        => /\ last.response.kind = "JSONResponse"
           /\ last.response.status_code = 200
           /\ last.response.media_type = "application/json"
           /\ last.response.content = [message |-> "Success"]

C10_Witness ==
    /\ Returned
    /\ ~last.stream
    /\ last.generator \in ChatCompletionResponses
    /\ last.response.status_code = 200
    /\ last.response.content.message = "Success"

\* C11: a failure raised during dispatch (the registry lookup, the awaited
\* get_model_config, building the serving object, or generation) ends the call
\* with the generic 500 answer and one more counted error, and leaves
\* current_model, the registry and the gateway's ability to serve untouched.
C11_UnexpectedFailureIs500 ==
    [][(/\ last'.op = "create_chat_completion"
        /\ last'.segment = "return"
        /\ last'.generator.cls \in {"raise", "none"})
       => /\ last'.response = HTTPException(500, "Internal server error")
          /\ ERROR_COUNT' = ERROR_COUNT + 1
          /\ UNCHANGED <<phase, config, current_model, models, switching>>
          /\ \A r \in ReqIds : reqs[r].pc # reqs'[r].pc => reqs'[r] = IdleReq]_vars

C11_Witness ==
    /\ Returned
    /\ last.generator = Raised
    /\ last.response.status_code = 500
    /\ ERROR_COUNT >= 1
    /\ current_model # default_model
    /\ current_model \in DOMAIN models

\* C12: every create_chat_completion call has its duration observed exactly
\* once, and the observed interval contains every segment of the call that
\* ran, the awaited engine work included, whatever the outcome.
C12_LatencyCoversCall ==
    Returned => last.observed = 1 /\ last.ran \subseteq last.timed

\* C13: check_model_health for a name that is not a key of the registry (a
\* configured name that failed to load included) is answered 400 "Model not
\* found" and never with a health status.
C13_HealthUnknownIs400 ==
    (last.op = "check_model_health" /\ last.model_name \notin DOMAIN models)
        => /\ last.response = HTTPException(400, "Model not found")
           /\ last.response.kind # "dict"

C13_Witness ==
    /\ last.op = "check_model_health"
    /\ last.model_name \notin DOMAIN models
    /\ \E i \in 1..Len(supported_models) : supported_models[i] = last.model_name
    /\ last.response.status_code = 400

\* C14: for a key of the registry, check_model_health answers "unhealthy"
\* when the engine's probe fails and "healthy" when it succeeds.
C14_HealthFollowsProbe ==
    (last.op = "check_model_health" /\ last.model_name \in DOMAIN models)
        => /\ last.response.kind = "dict"
           /\ last.response.content.status =
                  IF last.probe_fails THEN "unhealthy" ELSE "healthy"

\* C15: for a streaming request the caller receives the chunks the engine
\* produced, in order and number, and a raise of the engine after them is
\* surfaced as a failure.
C15_ChunksDelivered ==
    (Returned /\ last.stream /\ last.generator \in AsyncGenerators)
        => /\ Delivered(last.response).chunks = last.generator.fields.chunks
           /\ Delivered(last.response).failed = last.generator.fields.raises

\* C17: with two switch_model calls in flight, current_model only ever changes
\* to the name of the call whose assignment runs, the value left is that of
\* the assignment that ran last, and every reader (list_models, a dispatching
\* request) sees the value current at its read, always a key of the registry.
C17_ConcurrentSwitches ==
    /\ [][(phase = "running" /\ current_model' # current_model)
            => \E t \in SwitchCalls :
                 /\ switching[t] # "" /\ switching'[t] = ""
                 /\ current_model' = switching[t]]_vars
    /\ [](phase = "running"
            => /\ current_model \in DOMAIN models
               /\ (last.op = "switch_model_endpoint" /\ last.response.status_code = 200)
                      => current_model = last.model_name
               /\ last.op = "list_models"
                      => last.response.content.current_model = current_model
               /\ \A r \in ReqIds :
                      /\ reqs[r].pc # "idle" => reqs[r].routed \in DOMAIN models
                      /\ reqs[r].pc = "generate"
                             => reqs[r].served_model_names[1] \in DOMAIN models)

C17_Witness ==
    /\ last.op = "switch_model_endpoint"
    /\ last.response.status_code = 200
    /\ \E t \in SwitchCalls : switching[t] # "" /\ switching[t] # last.model_name
    /\ current_model = last.model_name
    /\ \E r \in ReqIds : reqs[r].pc # "idle" /\ reqs[r].routed # current_model

\* C18: once the gateway runs, no step changes the registry, and only a
\* switch that succeeded changes current_model, to the name it was given;
\* create_chat_completion, check_model_health and list_models leave both
\* alone, and a health answer is about the model asked for, not the current one.
C18_Frame ==
    /\ [][phase = "running"
            => /\ models' = models
               /\ current_model' # current_model
                      => /\ last'.op = "switch_model_endpoint"
                         /\ last'.response.status_code = 200
                         /\ last'.model_name = current_model'
               /\ last'.op \in {"create_chat_completion", "check_model_health", "list_models"}
                      => current_model' = current_model]_vars
    /\ []((last.op = "check_model_health" /\ last.response.kind = "dict")
            => last.response.content.model = last.model_name)

C18_Witness ==
    /\ last.op = "check_model_health"
    /\ last.response.kind = "dict"
    /\ last.model_name # current_model
    /\ current_model # default_model
    /\ DOMAIN models = LoadedNames

\* C19: within one call, the engine on which generation is started is the
\* engine of the model named in served_model_names.
C19_EngineMatchesServedName ==
    \A r \in ReqIds :
        (reqs[r].pc = "generate" /\ reqs[r].served_model_names[1] \in DOMAIN models)
            => reqs[r].generate_on = {models[reqs[r].served_model_names[1]]}

\* C20: the error counter never decreases; a create_chat_completion call adds
\* one when it ends with a status other than 200 and nothing when it ends
\* with 200 or is still running; switch_model and list_models add nothing.
C20_ErrorCounter ==
    [][/\ ERROR_COUNT' >= ERROR_COUNT
       /\ last'.op = "create_chat_completion"
            => ERROR_COUNT' - ERROR_COUNT =
                 IF last'.segment = "return" /\ last'.response.status_code # 200
                 THEN 1 ELSE 0
       /\ last'.op \in {"switch_model_endpoint", "list_models"}
            => ERROR_COUNT' = ERROR_COUNT]_vars

C20_Witness ==
    /\ Returned
    /\ last.generator \in ErrorResponses
    /\ last.response.status_code = 404
    /\ last.errors = 1
    /\ ERROR_COUNT >= 2

====
